---- MODULE Spec2Model ----
(***************************************************************************)
(* Model of the request dispatcher of etherpadlite-golang.                 *)
(*                                                                         *)
(* The repository holds three revisions of the package:                    *)
(*   "current"   src/unnamed/part_000  (ReturnCode, RaiseEtherpadErrors,   *)
(*               request bound to ctx, streaming JSON decoder)             *)
(*   "goroutine" src/unnamed/part_001  (worker goroutine + select on ctx)  *)
(*   "first"     src/etherpadlite.go   (integer APIVersion, no worker)     *)
(* The variable impl names the revision that is built.                     *)
(*                                                                         *)
(* Text is a sequence of tokens.  A token is either one reserved character *)
(* ("/", "?", "#", "&", "=", ":", " ", "%", and "\n" for a control         *)
(* character), or a run of unreserved characters ("localhost", "padID"),   *)
(* or one percent-escape written by an escaping function ("%26").          *)
(***************************************************************************)
EXTENDS Integers, Sequences, FiniteSets, TLC

\* ------------------------------------------------------------ bounds
\* largest number of entries of a per-call parameter map
MaxParams == 2

\* largest code a server answers with
MaxCode == 12

\* ------------------------------------------------------------ text helpers
Contains(s, tok) == \E i \in 1..Len(s) : s[i] = tok

\* index of the first occurrence of tok in s, 0 when there is none
IndexOf(s, tok) ==
    IF Contains(s, tok)
    THEN CHOOSE i \in 1..Len(s) : s[i] = tok /\ \A j \in 1..(i-1) : s[j] # tok
    ELSE 0

\* strings.Cut / the prefix before the first tok (all of s when absent)
Before(s, tok) == IF IndexOf(s, tok) = 0 THEN s ELSE SubSeq(s, 1, IndexOf(s, tok) - 1)

\* the text after the first tok (empty when absent)
After(s, tok) == IF IndexOf(s, tok) = 0 THEN <<>> ELSE SubSeq(s, IndexOf(s, tok) + 1, Len(s))

HasPrefix(s, p) == Len(s) >= Len(p) /\ SubSeq(s, 1, Len(p)) = p

\* ------------------------------------------------------------ values and fmt
\* A Go interface{} value: its dynamic type and its value.
StrVal(s)  == [type |-> "string", str |-> s, int |-> 0, bool |-> FALSE]
BoolVal(b) == [type |-> "bool", str |-> <<>>, int |-> 0, bool |-> b]
IntVal(n)  == [type |-> "int", str |-> <<>>, int |-> n, bool |-> FALSE]

\* const OptionalParam optionalParamType = 0
OptionalParam == [type |-> "optionalParamType", str |-> <<>>, int |-> 0, bool |-> FALSE]

\* decimal rendering of the small integers the model uses
Itoa(n) ==
    CASE n = 0 -> "0" [] n = 1 -> "1" [] n = 2 -> "2" [] n = 3 -> "3"
      [] n = 4 -> "4" [] n = 5 -> "5" [] n = 6 -> "6" [] n = 7 -> "7"
      [] n = 8 -> "8" [] n = 9 -> "9" [] OTHER -> "n"

\* fmt.Sprintf("%v", value)
SprintV(v) ==
    CASE v.type = "string" -> v.str
      [] v.type = "bool"   -> << IF v.bool THEN "true" ELSE "false" >>
      [] OTHER             -> << Itoa(v.int) >>

\* ------------------------------------------------------------ net/url escaping
\* url.QueryEscape on one token: every reserved character is percent-escaped,
\* a space becomes "+", unreserved runs are kept.
QueryEscapeTok(t) ==
    CASE t = "&" -> "%26" [] t = "=" -> "%3D" [] t = "?" -> "%3F"
      [] t = "#" -> "%23" [] t = "/" -> "%2F" [] t = ":" -> "%3A"
      [] t = "%" -> "%25" [] t = " " -> "+"   [] t = "\n" -> "%0A"
      [] t = "+" -> "%2B"
      [] OTHER   -> t

QueryEscape(s) == [i \in 1..Len(s) |-> QueryEscapeTok(s[i])]

\* url.QueryUnescape on one token (the server's reading of the query)
QueryUnescapeTok(t) ==
    CASE t = "%26" -> "&" [] t = "%3D" -> "=" [] t = "%3F" -> "?"
      [] t = "%23" -> "#" [] t = "%2F" -> "/" [] t = "%3A" -> ":"
      [] t = "%25" -> "%" [] t = "+"   -> " " [] t = "%0A" -> "\n"
      [] t = "%2B" -> "+"
      [] OTHER     -> t

QueryUnescape(s) == [i \in 1..Len(s) |-> QueryUnescapeTok(s[i])]

\* escape(path, encodePath): in a path only the space, "?", "#" and "%" of
\* the model's alphabet need escaping
PathEscapeTok(t) ==
    CASE t = " " -> "%20" [] t = "?" -> "%3F" [] t = "#" -> "%23"
      [] t = "%" -> "%25"
      [] OTHER   -> t

PathEscape(s) == [i \in 1..Len(s) |-> PathEscapeTok(s[i])]

\* ------------------------------------------------------------ url.Values
\* Keys in the byte order sort.Strings gives them (upper case before lower).
KeyOrder ==
    << "apikey", "authorID", "authorMapper", "destinationID", "end", "endRev", "force",
       "groupID", "groupMapper", "html", "msg", "name", "padID", "padId", "padName",
       "password", "publicStatus", "readOnlyID", "rev", "sessionID", "sourceID", "start",
       "startRev", "text", "validUntil" >>

\* url.Values{}: no key has a value
EmptyValues == [k \in {} |-> <<>>]

ValuesOf(vals, k) == IF k \in DOMAIN vals THEN vals[k] ELSE <<>>

\* Values.Set in place of Values.Add: the value replaces the values of key
ValuesSet(vals, k, v) ==
    [x \in (DOMAIN vals) \cup {k} |-> IF x = k THEN << v >> ELSE vals[x]]

\* a value added only to a key that has none: the first value is kept alone
ValuesAddIfAbsent(vals, k, v) ==
    [x \in (DOMAIN vals) \cup {k} |->
        IF x = k /\ ValuesOf(vals, k) = <<>> THEN << v >> ELSE vals[x]]

\* Values.Add(key, value): append value to the values of key
ValuesAdd(vals, k, v) ==
    [x \in (DOMAIN vals) \cup {k} |->
        IF x = k THEN Append(ValuesOf(vals, k), v) ELSE vals[x]]

\* the loop "for key, value := range m { parameters.Add(key, Sprintf("%v", value)) }":
\* a Go map holds a key once, so the iteration order does not matter
AddAll(vals, m) ==
    LET RECURSIVE Go(_, _)
        Go(acc, ks) ==
            IF ks = {} THEN acc
            ELSE LET k == CHOOSE x \in ks : TRUE
                 IN  Go(ValuesAdd(acc, k, SprintV(m[k])), ks \ {k})
    IN  Go(vals, DOMAIN m)

\* "key=value" for every value of one key, joined by "&"
RECURSIVE EncodeKey(_, _)
EncodeKey(k, vs) ==
    IF vs = <<>> THEN <<>>
    ELSE QueryEscape(<<k>>) \o <<"=">> \o QueryEscape(Head(vs))
         \o (IF Tail(vs) = <<>> THEN <<>> ELSE <<"&">> \o EncodeKey(k, Tail(vs)))

\* Values.Encode(): keys sorted, values of one key in insertion order
RECURSIVE EncodeFrom(_, _)
EncodeFrom(vals, i) ==
    IF i > Len(KeyOrder) THEN <<>>
    ELSE LET here == EncodeKey(KeyOrder[i], ValuesOf(vals, KeyOrder[i]))
             rest == EncodeFrom(vals, i + 1)
         IN  IF here = <<>> THEN rest
             ELSE IF rest = <<>> THEN here
             ELSE here \o <<"&">> \o rest

ValuesEncode(vals) == EncodeFrom(vals, 1)

\* url.ParseQuery, the reading of a query string as the server does it:
\* the sequence of <<key, value>> pairs, in order
RECURSIVE ParseQuery(_)
ParseQuery(q) ==
    IF q = <<>> THEN <<>>
    ELSE LET part == Before(q, "&")
             pair == << QueryUnescape(Before(part, "=")), QueryUnescape(After(part, "=")) >>
         IN  (IF part = <<>> THEN <<>> ELSE << pair >>) \o ParseQuery(After(q, "&"))

\* ------------------------------------------------------------ net/url parsing
\* the tokens that are runs of letters, and those that are runs of digits
LetterTokens == {"http", "https", "localhost", "api", "port"}
DigitTokens  == {"9001", "80"}

\* a url.URL; ok = FALSE is a parse error
URL(scheme, opaque, host, path, rawQuery, fragment) ==
    [ok |-> TRUE, scheme |-> scheme, opaque |-> opaque, host |-> host,
     path |-> path, RawQuery |-> rawQuery, fragment |-> fragment]

BadURL == [ok |-> FALSE, scheme |-> "", opaque |-> <<>>, host |-> <<>>,
           path |-> <<>>, RawQuery |-> <<>>, fragment |-> <<>>]

\* getScheme: a leading run of letters followed by ":" is the scheme
HasScheme(s) == Len(s) >= 2 /\ s[1] \in LetterTokens /\ s[2] = ":"

\* parseHost / validOptionalPort: after the host, ":" must be followed by digits only
ValidAuthority(a) ==
    IF Contains(a, ":")
    THEN After(a, ":") = <<>> \/ (Len(After(a, ":")) = 1 /\ After(a, ":")[1] \in DigitTokens)
    ELSE TRUE

\* url.Parse(rawurl)
UrlParse(raw) ==
    LET u        == Before(raw, "#")
        fragment == After(raw, "#")
        scheme   == IF HasScheme(u) THEN u[1] ELSE ""
        afterSch == IF HasScheme(u) THEN SubSeq(u, 3, Len(u)) ELSE u
        rest     == Before(afterSch, "?")
        rawQuery == After(afterSch, "?")
        hasAuth  == HasPrefix(rest, <<"/", "/">>)
        afterSl  == IF hasAuth THEN SubSeq(rest, 3, Len(rest)) ELSE rest
        host     == IF hasAuth THEN Before(afterSl, "/") ELSE <<>>
        path     == IF hasAuth
                    THEN SubSeq(afterSl, Len(host) + 1, Len(afterSl))
                    ELSE rest
    IN  IF Contains(raw, "\n") THEN BadURL                       \* invalid control character
        ELSE IF u # <<>> /\ u[1] = ":" THEN BadURL               \* missing protocol scheme
        ELSE IF scheme # "" /\ (rest = <<>> \/ rest[1] # "/")
             THEN URL(scheme, rest, <<>>, <<>>, rawQuery, fragment)   \* opaque
        ELSE IF scheme = "" /\ Contains(Before(rest, "/"), ":")
             THEN BadURL                                          \* colon in first path segment
        ELSE IF hasAuth /\ ~ValidAuthority(host) THEN BadURL      \* invalid port
        ELSE IF Contains(path, "%") THEN BadURL                   \* invalid URL escape
        ELSE URL(scheme, <<>>, host, path, rawQuery, fragment)

\* (*URL).String()
UrlString(u) ==
    (IF u.scheme # "" THEN << u.scheme, ":" >> ELSE <<>>)
    \o (IF u.opaque # <<>>
        THEN u.opaque
        ELSE (IF (u.scheme # "" \/ u.host # <<>>) /\ (u.host # <<>> \/ u.path # <<>>)
              THEN <<"/", "/">> \o u.host ELSE <<>>)
             \o (IF u.path # <<>> /\ u.path[1] # "/" /\ u.host # <<>> THEN <<"/">> ELSE <<>>)
             \o PathEscape(u.path))
    \o (IF u.RawQuery # <<>> THEN <<"?">> \o u.RawQuery ELSE <<>>)
    \o (IF u.fragment # <<>> THEN <<"#">> \o u.fragment ELSE <<>>)

\* ------------------------------------------------------------ responses and errors
\* ReturnCode constants (iota)
EverythingOk   == 0
WrongParamters == 1
InternalError  == 2
NoSuchFunction == 3
WrongAPIKey    == 4

\* a Response whose Data is never filled
ResponseWithoutData(code, message, data) ==
    [isNil |-> FALSE, Code |-> code, Message |-> message, Data |-> {}]

\* strconv: the decimal digits of n >= 0, and the text of any integer
RECURSIVE Digits(_)
Digits(n) == IF n < 10 THEN << Itoa(n) >> ELSE Digits(n \div 10) \o << Itoa(n % 10) >>

FormatInt(n) == IF n < 0 THEN << "-" >> \o Digits(0 - n) ELSE Digits(n)

\* String with a default that leaves the number out
ReturnCodeStringNoNumber(c) ==
    CASE c = EverythingOk   -> << "0 everything ok" >>
      [] c = WrongParamters -> << "1 wrong parameters" >>
      [] c = InternalError  -> << "2 internal error" >>
      [] c = NoSuchFunction -> << "3 no such function" >>
      [] c = WrongAPIKey    -> << "4 no or wrong API Key" >>
      [] OTHER              -> << " unknown return code" >>

\* func (c ReturnCode) String() string
ReturnCodeString(c) ==
    CASE c = EverythingOk   -> << "0 everything ok" >>
      [] c = WrongParamters -> << "1 wrong parameters" >>
      [] c = InternalError  -> << "2 internal error" >>
      [] c = NoSuchFunction -> << "3 no such function" >>
      [] c = WrongAPIKey    -> << "4 no or wrong API Key" >>
      [] OTHER              -> FormatInt(c) \o << " unknown return code" >>

\* type Response struct { Code; Message; Data }; isNil is the nil *Response.
\* Data is the set of <<name, value>> pairs of the map (empty for a nil map).
Response(code, message, data) ==
    [isNil |-> FALSE, Code |-> code, Message |-> message, Data |-> data]

NilResponse == [isNil |-> TRUE, Code |-> 0, Message |-> "", Data |-> {}]

\* var padResponse Response
ZeroResponse == Response(0, "", {})

\* An error value: its kind, and for an EtherpadError its code and message.
\*   "parse"     url.Parse failed             "request"   http.NewRequest failed
\*   "transport" Client.Do failed             "canceled"  Client.Do / body read
\*   "read"      reading the body failed                  failed on the done ctx
\*   "json"      the JSON decoding failed     "etherpad"  EtherpadError
\*   "ctx cancelled" errors.New("ctx cancelled") of the goroutine revision
Err(kind) == [kind |-> kind, code |-> 0, message |-> ""]

NoError == Err("nil")

\* the errors of the transport: the request could not be sent or answered
\* (message is the text of the error)
TransportErr(message) == [kind |-> "transport", code |-> 0, message |-> message]

TransportErrs ==
    { TransportErr("connection refused"), TransportErr("no such host") }

\* the error of Client.Do for a request that is not http or https
UnsupportedScheme == TransportErr("unsupported protocol scheme")

\* the error of a client whose redirect policy ends the request
RedirectErr == TransportErr("stopped after 10 redirects")

\* NewEtherpadError(code, message)
NewEtherpadError(code, message) == [kind |-> "etherpad", code |-> code, message |-> message]

\* what a call returns: (*Response, error)
Outcome(resp, err) == [response |-> resp, err |-> err]

\* ------------------------------------------------------------ JSON bodies
\* A JSON value of a field of the top-level object.
JNum(n) == [t |-> "number", n |-> n, s |-> "", d |-> {}]
JStr(x) == [t |-> "string", n |-> 0, s |-> x, d |-> {}]
JObj(d) == [t |-> "object", n |-> 0, s |-> "", d |-> d]
JNull   == [t |-> "null", n |-> 0, s |-> "", d |-> {}]

\* A response body: the first JSON value of the stream and whether text that
\* is not white space follows it.
\*   first = "object": fields maps the top-level names to their values
\*   first = "array" / "null": a top-level value that is no object
\*   first = "invalid": the stream does not start with a JSON value
\*   first = "empty": the stream is empty
Body(first, fields, trailing) == [first |-> first, fields |-> fields, trailing |-> trailing]

NoFields == [k \in {} |-> JNull]

PadData == { <<"padID", "foo">> }

Envelope(code, message, data) ==
    [k \in {"code", "message", "data"} |->
        CASE k = "code" -> code [] k = "message" -> message [] OTHER -> data]

BodyOk        == Body("object", Envelope(JNum(0), JStr("ok"), JObj(PadData)), FALSE)
BodyWrongKey  == Body("object", Envelope(JNum(4), JStr("no or wrong API Key"), JNull), FALSE)
BodyUnknown   == Body("object", Envelope(JNum(7), JStr("teapot"), JNull), FALSE)
BodyNotJSON   == Body("invalid", NoFields, TRUE)
BodyEmpty     == Body("empty", NoFields, FALSE)
BodyTrailing  == Body("object", Envelope(JNum(1), JStr("padID does not exist"), JNull), TRUE)
BodyNoFields  == Body("object", NoFields, FALSE)
BodyNoCode    == Body("object", [k \in {"message", "data"} |->
                         IF k = "message" THEN JStr("internal error") ELSE JNull], FALSE)
BodyNoMessage == Body("object", [k \in {"code", "data"} |->
                         IF k = "code" THEN JNum(2) ELSE JNull], FALSE)
BodyNoData    == Body("object", [k \in {"code", "message"} |->
                         IF k = "code" THEN JNum(0) ELSE JStr("ok")], FALSE)
BodyExtra     == Body("object", [k \in {"code", "message", "data", "extra"} |->
                         CASE k = "code" -> JNum(0) [] k = "message" -> JStr("ok")
                           [] k = "data" -> JObj(PadData) [] OTHER -> JStr("x")], FALSE)
BodyArray     == Body("array", NoFields, FALSE)
BodyNull      == Body("null", NoFields, FALSE)
BodyStrCode   == Body("object", Envelope(JStr("0"), JStr("ok"), JNull), FALSE)

Bodies ==
    { BodyOk, BodyWrongKey, BodyUnknown, BodyNotJSON, BodyEmpty, BodyTrailing,
      BodyNoFields, BodyNoCode, BodyNoMessage, BodyNoData, BodyExtra, BodyArray,
      BodyNull, BodyStrCode }

\* the body is one JSON value and nothing else
ValidJSON(b) == b.first \in {"object", "array", "null"} /\ ~b.trailing

\* the body is a JSON object with exactly the fields code, message and data,
\* of the types of Response
EnvelopeShaped(b) ==
    /\ ValidJSON(b)
    /\ b.first = "object"
    /\ DOMAIN b.fields = {"code", "message", "data"}
    /\ b.fields["code"].t = "number"
    /\ b.fields["message"].t = "string"
    /\ b.fields["data"].t \in {"object", "null"}

\* encoding/json storing one field value into a struct field: null leaves the
\* field alone, a value of another JSON type is an UnmarshalTypeError and the
\* field is skipped
FieldSet(b, name) == name \in DOMAIN b.fields /\ b.fields[name].t # "null"

FieldFits(b, name, kind) == ~FieldSet(b, name) \/ b.fields[name].t = kind

FieldStored(b, name, kind) == FieldSet(b, name) /\ b.fields[name].t = kind

\* encoding/json filling padResponse from the first value of the body, as
\* (padResponse, jsonErr): names it does not know are skipped, names that are
\* absent leave the zero value
UnmarshalValue(b) ==
    IF b.first = "null" THEN Outcome(ZeroResponse, NoError)
    ELSE IF b.first # "object" THEN Outcome(ZeroResponse, Err("json"))
    ELSE Outcome(Response(IF FieldStored(b, "code", "number") THEN b.fields["code"].n ELSE 0,
                          IF FieldStored(b, "message", "string") THEN b.fields["message"].s ELSE "",
                          IF FieldStored(b, "data", "object") THEN b.fields["data"].d ELSE {}),
                 IF /\ FieldFits(b, "code", "number")
                    /\ FieldFits(b, "message", "string")
                    /\ FieldFits(b, "data", "object")
                 THEN NoError ELSE Err("json"))

\* json.Unmarshal(allContent, &padResponse): the whole text must be one value
JsonUnmarshal(b) ==
    IF b.first \in {"invalid", "empty"} \/ b.trailing
    THEN Outcome(ZeroResponse, Err("json"))
    ELSE UnmarshalValue(b)

\* json.NewDecoder(resp.Body).Decode(&padResponse): reads the first value of
\* the stream; what follows it is left unread
DecoderDecode(b) ==
    IF b.first \in {"invalid", "empty"}
    THEN Outcome(ZeroResponse, Err("json"))
    ELSE UnmarshalValue(b)

\* ------------------------------------------------------------ configuration
Impls == {"current", "goroutine", "first"}

\* CurrentVersion of the current revision; "1.2.10" and the integer 1 before it
DefaultAPIVersion(im) ==
    CASE im = "current" -> <<"1.2.13">> [] im = "goroutine" -> <<"1.2.10">> [] OTHER -> <<Itoa(1)>>

DefaultBaseURL == << "http", ":", "/", "/", "localhost", ":", "9001", "/", "api" >>

\* the client NewEtherpadLite sets: http.DefaultClient, the one client of the
\* process with no timeout, in the current revision; a client of its own
\* with a timeout of 20 seconds before
DefaultClient(im) ==
    [isNil   |-> FALSE,
     shared  |-> (im = "current"),
     Timeout |-> IF im = "current" THEN 0 ELSE 20]

\* NewEtherpadLite(apiKey); RaiseEtherpadErrors is a field of the current
\* revision only, and FALSE stands for its absence before
NewEtherpadLite(im, apiKey) ==
    [APIVersion          |-> DefaultAPIVersion(im),
     BaseParams          |-> [k \in {"apikey"} |-> StrVal(apiKey)],
     BaseURL             |-> DefaultBaseURL,
     Client              |-> DefaultClient(im),
     RaiseEtherpadErrors |-> FALSE]

\* the API keys, the base addresses and the added fixed parameters a caller configures
ApiKeys == { <<"secret">>, <<"s", "&", "t", "=", "1">> }

BaseURLs ==
    { DefaultBaseURL,
      << "https", ":", "/", "/", "pad.domain", "/", "api" >>,
      << "http", ":", "/", "/", "localhost", ":", "port", "/", "api" >>,
      << "localhost", ":", "9001", "/", "api" >> }

FixedPadID == StrVal(<<"fixed">>)

\* ------------------------------------------------------------ call inputs
Paths == { <<"createPad">>, <<"listAllPads">> }

ParamKeys == {"padID", "text", "apikey"}

ParamValues == { StrVal(<<"foo">>), StrVal(<<"a", "&", "b", "=", "?", "#", "/", "c">>) }

\* the non-nil per-call maps of at most MaxParams entries
ParamMaps ==
    UNION { [K -> ParamValues] : K \in { X \in SUBSET ParamKeys : Cardinality(X) <= MaxParams } }

\* a per-call parameter map; isNil is the nil map of the methods without parameters
Params(isNil, m) == [isNil |-> isNil, m |-> m]

NoParams == [k \in {} |-> StrVal(<<>>)]

ParamArgs == { Params(TRUE, NoParams) } \cup { Params(FALSE, m) : m \in ParamMaps }

Ctxs == {"nil", "live", "done"}

\* ------------------------------------------------------------ the API methods
\* the comparison by the number alone: the int 0 taken for OptionalParam
IsOptionalParamByNumber(v) == v.type \in {"optionalParamType", "int"} /\ v.int = 0

\* "x == OptionalParam" on interface values: the same dynamic type and the
\* same value
IsOptionalParam(v) == v = OptionalParam

\* params[k] = v
MapSet(m, k, v) == [x \in (DOMAIN m) \cup {k} |-> IF x = k THEN v ELSE m[x]]

\* "if v != OptionalParam { params[k] = v }"
SetUnlessOptional(m, k, v) == IF IsOptionalParam(v) THEN m ELSE MapSet(m, k, v)

\* params["force"] = true when force is OptionalParam
ForceParamDefaultTrue(force) == IF IsOptionalParam(force) THEN BoolVal(TRUE) ELSE force

\* "if force == OptionalParam { params["force"] = false } else { params["force"] = force }"
ForceParam(force) == IF IsOptionalParam(force) THEN BoolVal(FALSE) ELSE force

\* what a method hands to sendRequest
Request(p, m) == [path |-> << p >>, params |-> Params(FALSE, m)]

CreateGroupPad(groupID, padName, text) ==
    Request("createGroupPad",
            SetUnlessOptional([k \in {"groupID", "padName"} |->
                                 IF k = "groupID" THEN groupID ELSE padName], "text", text))

CreateAuthor(name) == Request("createAuthor", SetUnlessOptional(NoParams, "name", name))

CreateAuthorIfNotExistsFor(authorMapper, name) ==
    Request("createAuthorIfNotExistsFor",
            SetUnlessOptional([k \in {"authorMapper"} |-> authorMapper], "name", name))

GetText(padID, rev) ==
    Request("getText", SetUnlessOptional([k \in {"padID"} |-> padID], "rev", rev))

GetHTML(padID, rev) ==
    Request("getHTML", SetUnlessOptional([k \in {"padID"} |-> padID], "rev", rev))

GetRevisionChangeset(padID, rev) ==
    Request("getRevisionChangeset",
            SetUnlessOptional([k \in {"padID"} |-> padID], "rev", rev))

GetChatHistory(padID, start, end) ==
    Request("getChatHistory",
            SetUnlessOptional(SetUnlessOptional([k \in {"padID"} |-> padID], "start", start),
                              "end", end))

CreatePad(padID, text) ==
    Request("createPad", SetUnlessOptional([k \in {"padID"} |-> padID], "text", text))

SaveRevision(padID, rev) ==
    Request("saveRevision", SetUnlessOptional([k \in {"padID"} |-> padID], "rev", rev))

CopyPad(sourceID, destinationID, force) ==
    Request("copyPad",
            MapSet([k \in {"sourceID", "destinationID"} |->
                      IF k = "sourceID" THEN sourceID ELSE destinationID],
                   "force", ForceParam(force)))

MovePad(sourceID, destinationID, force) ==
    Request("movePad",
            MapSet([k \in {"sourceID", "destinationID"} |->
                      IF k = "sourceID" THEN sourceID ELSE destinationID],
                   "force", ForceParam(force)))

\* the methods that hand each of their arguments to sendRequest under one
\* key, "map[string]interface{}{"k": k, ...}", and those without arguments,
\* which hand it the nil map: the path and the keys in the order of the
\* arguments
Forwarding(op) ==
    CASE op = "CreateGroup"                -> [path |-> "createGroup",                 keys |-> << >>]
      [] op = "CreateGroupIfNotExistsFor"  -> [path |-> "createGroupIfNotExistsFor",   keys |-> << "groupMapper" >>]
      [] op = "DeleteGroup"                -> [path |-> "deleteGroup",                 keys |-> << "groupID" >>]
      [] op = "ListPads"                   -> [path |-> "listPads",                    keys |-> << "groupID" >>]
      [] op = "ListAllGroups"              -> [path |-> "listAllGroups",               keys |-> << >>]
      [] op = "GetAuthorName"              -> [path |-> "getAuthorName",               keys |-> << "authorID" >>]
      [] op = "CreateSession"              -> [path |-> "createSession",               keys |-> << "groupID", "authorID", "validUntil" >>]
      [] op = "DeleteSession"              -> [path |-> "deleteSession",               keys |-> << "sessionID" >>]
      [] op = "GetSessionInfo"             -> [path |-> "getSessionInfo",              keys |-> << "sessionID" >>]
      [] op = "ListSessionsOfGroup"        -> [path |-> "listSessionsOfGroup",         keys |-> << "groupID" >>]
      [] op = "ListSessionsOfAuthor"       -> [path |-> "listSessionsOfAuthor",        keys |-> << "authorID" >>]
      [] op = "SetText"                    -> [path |-> "setText",                     keys |-> << "padID", "text" >>]
      [] op = "AppendText"                 -> [path |-> "appendText",                  keys |-> << "padID", "text" >>]
      [] op = "SetHTML"                    -> [path |-> "setHTML",                     keys |-> << "padID", "html" >>]
      [] op = "GetAttributePool"           -> [path |-> "getAttributePool",            keys |-> << "padID" >>]
      [] op = "CreateDiffHTML"             -> [path |-> "createDiffHTML",              keys |-> << "padID", "startRev", "endRev" >>]
      [] op = "GetChatHead"                -> [path |-> "getChatHead",                 keys |-> << "padID" >>]
      [] op = "GetRevisionsCount"          -> [path |-> "getRevisionsCount",           keys |-> << "padID" >>]
      [] op = "GetSavedRevisionsCount"     -> [path |-> "getSavedRevisionsCount",      keys |-> << "padID" >>]
      [] op = "ListSavedRevisions"         -> [path |-> "listSavedRevisions",          keys |-> << "padID" >>]
      [] op = "PadUsersCount"              -> [path |-> "padUsersCount",               keys |-> << "padID" >>]
      [] op = "PadUsers"                   -> [path |-> "padUsers",                    keys |-> << "padID" >>]
      [] op = "DeletePad"                  -> [path |-> "deletePad",                   keys |-> << "padID" >>]
      [] op = "GetReadOnlyID"              -> [path |-> "getReadOnlyID",               keys |-> << "padID" >>]
      [] op = "GetPadID"                   -> [path |-> "getPadID",                    keys |-> << "readOnlyID" >>]
      [] op = "SetPublicStatus"            -> [path |-> "setPublicStatus",             keys |-> << "padID", "publicStatus" >>]
      [] op = "GetPublicStatus"            -> [path |-> "getPublicStatus",             keys |-> << "padID" >>]
      [] op = "SetPassword"                -> [path |-> "setPassword",                 keys |-> << "padID", "password" >>]
      [] op = "IsPasswordProtected"        -> [path |-> "isPasswordProtected",         keys |-> << "padID" >>]
      [] op = "ListAuthorsOfPad"           -> [path |-> "listAuthorsOfPad",            keys |-> << "padID" >>]
      [] op = "GetLastEdited"              -> [path |-> "getLastEdited",               keys |-> << "padID" >>]
      [] op = "SendClientsMessage"         -> [path |-> "sendClientsMessage",          keys |-> << "padID", "msg" >>]
      [] op = "CheckToken"                 -> [path |-> "checkToken",                  keys |-> << >>]
      [] op = "ListAllPads"                -> [path |-> "listAllPads",                 keys |-> << >>]

ForwardingOps ==
    {"CreateGroup", "CreateGroupIfNotExistsFor", "DeleteGroup", "ListPads",
     "ListAllGroups", "GetAuthorName", "CreateSession", "DeleteSession",
     "GetSessionInfo", "ListSessionsOfGroup", "ListSessionsOfAuthor", "SetText",
     "AppendText", "SetHTML", "GetAttributePool", "CreateDiffHTML",
     "GetChatHead", "GetRevisionsCount", "GetSavedRevisionsCount", "ListSavedRevisions",
     "PadUsersCount", "PadUsers", "DeletePad", "GetReadOnlyID",
     "GetPadID", "SetPublicStatus", "GetPublicStatus", "SetPassword",
     "IsPasswordProtected", "ListAuthorsOfPad", "GetLastEdited", "SendClientsMessage",
     "CheckToken", "ListAllPads"}

Forward(op, args) ==
    LET t == Forwarding(op)
    IN  IF t.keys = << >>
        THEN [path |-> << t.path >>, params |-> Params(TRUE, NoParams)]
        ELSE Request(t.path,
                     [k \in {t.keys[i] : i \in DOMAIN t.keys} |->
                        args[CHOOSE i \in DOMAIN t.keys : t.keys[i] = k]])

\* the first revision calls sendRequest with nil, the later ones with the
\* map of authorID
ListPadsOfAuthor(im, authorID) ==
    IF im = "first"
    THEN [path |-> << "listPadsOfAuthor" >>, params |-> Params(TRUE, NoParams)]
    ELSE Request("listPadsOfAuthor", [authorID |-> authorID])

RestoreRevision(padId, rev) ==
    Request("restoreRevision", [padId |-> padId, rev |-> rev])

\* the methods that the first revision does not have yet
NotInFirst ==
    {"ListAllGroups", "GetAuthorName", "SetHTML", "GetAttributePool", "GetRevisionChangeset",
     "CreateDiffHTML", "GetChatHistory", "GetChatHead", "GetSavedRevisionsCount",
     "ListSavedRevisions", "SaveRevision", "PadUsers", "CopyPad", "MovePad", "GetPadID",
     "SendClientsMessage", "CheckToken", "ListAllPads"}

\* the methods that only the current revision has
OnlyCurrent == {"AppendText", "RestoreRevision"}

\* the exported methods that a revision has
MethodsOf(im) ==
    LET all == ForwardingOps \cup
               {"CreateGroupPad", "CreateAuthor", "CreateAuthorIfNotExistsFor", "GetText",
                "GetHTML", "CreatePad", "GetRevisionChangeset", "GetChatHistory",
                "SaveRevision", "CopyPad", "MovePad", "ListPadsOfAuthor", "RestoreRevision"}
    IN  CASE im = "current"   -> all
          [] im = "goroutine" -> all \ OnlyCurrent
          [] im = "first"     -> all \ (OnlyCurrent \cup NotInFirst)

\* the call of a method by its name, args its arguments after ctx
Invoke(im, op, args) ==
    CASE op = "CreateGroupPad"             -> CreateGroupPad(args[1], args[2], args[3])
      [] op = "CreateAuthor"               -> CreateAuthor(args[1])
      [] op = "CreateAuthorIfNotExistsFor" -> CreateAuthorIfNotExistsFor(args[1], args[2])
      [] op = "GetText"                    -> GetText(args[1], args[2])
      [] op = "GetHTML"                    -> GetHTML(args[1], args[2])
      [] op = "GetRevisionChangeset"       -> GetRevisionChangeset(args[1], args[2])
      [] op = "GetChatHistory"             -> GetChatHistory(args[1], args[2], args[3])
      [] op = "CreatePad"                  -> CreatePad(args[1], args[2])
      [] op = "SaveRevision"               -> SaveRevision(args[1], args[2])
      [] op = "CopyPad"                    -> CopyPad(args[1], args[2], args[3])
      [] op = "MovePad"                    -> MovePad(args[1], args[2], args[3])
      [] op = "ListPadsOfAuthor"           -> ListPadsOfAuthor(im, args[1])
      [] op = "RestoreRevision"            -> RestoreRevision(args[1], args[2])
      [] OTHER                             -> Forward(op, args)

\* the arguments the callers of the model pass: one value for a required
\* parameter, OptionalParam and values of three types for an optional one
RequiredArgs == { StrVal(<<"foo">>) }

OptionalArgs ==
    { OptionalParam, IntVal(0), IntVal(5), StrVal(<<"a", "&", "b">>), BoolVal(TRUE) }

ForceArgs == { OptionalParam, BoolVal(TRUE), BoolVal(FALSE), StrVal(<<"yes">>) }

\* the arguments of a forwarding method: a different text at each position
ForwardArgs(n) == SubSeq(<< StrVal(<<"a1">>), StrVal(<<"a2">>), StrVal(<<"a3">>) >>, 1, n)

MethodCall(op, args) == [op |-> op, args |-> args]

MethodCalls ==
    { MethodCall("CreateAuthor", << n >>) : n \in OptionalArgs }
    \cup { MethodCall(op, << a, o >>) :
              op \in {"CreateAuthorIfNotExistsFor", "GetText", "GetHTML",
                      "GetRevisionChangeset", "CreatePad", "SaveRevision"},
              a \in RequiredArgs, o \in OptionalArgs }
    \cup { MethodCall("CreateGroupPad", << g, n, t >>) :
              g \in RequiredArgs, n \in RequiredArgs, t \in OptionalArgs }
    \cup { MethodCall("GetChatHistory", << a, st, en >>) :
              a \in RequiredArgs, st \in OptionalArgs, en \in OptionalArgs }
    \cup { MethodCall(op, << a, b, f >>) :
              op \in {"CopyPad", "MovePad"},
              a \in RequiredArgs, b \in RequiredArgs, f \in ForceArgs }
    \cup { MethodCall(op, ForwardArgs(Len(Forwarding(op).keys))) : op \in ForwardingOps }
    \cup { MethodCall("ListPadsOfAuthor", ForwardArgs(1)),
           MethodCall("RestoreRevision", ForwardArgs(2)) }

\* ------------------------------------------------------------ state
VARIABLES
    impl,       \* the revision of the package that is built
    pad,        \* the EtherpadLite value
    caller,     \* per call: "idle", "running" (in the body), "select", "returned"
    ctx,        \* per call: the ctx argument, "nil", "live" or "done"
    path,       \* per call: the path argument
    params,     \* per call: the params argument
    pc,         \* per call: where the body of the request is
    worker,     \* per call: the body runs in a goroutine of its own
    req,        \* per call: the address of the request built, <<>> before
    httpResp,   \* per call: the response Client.Do returned
    padResponse,\* per call: the decoded Response and the decoder's error
    ch,         \* per call: the result channel (capacity 1)
    result,     \* per call: what sendRequest returned
    hist,       \* per call: what happened in the call (for the properties)
    codeStr,    \* per call: the Code of the result rendered by its caller
    stdout,     \* per call: the lines the call wrote to standard output
    other,      \* the EtherpadLite value of a second call of NewEtherpadLite
    clients     \* the Timeout field of each http.Client of the process

vars == << impl, pad, caller, ctx, path, params, pc, worker, req, httpResp,
           padResponse, ch, result, hist, codeStr, stdout, other, clients >>

\* the second configuration and the clients
configs == << other, clients >>

\* the calls the model follows
CallIds == {1}

Callers == DOMAIN caller

\* no response; open is the state of the body of a response, closes the
\* number of calls of resp.Body.Close() that the dispatcher made
NoHTTPResp == [present |-> FALSE, body |-> BodyEmpty, open |-> FALSE, closes |-> 0]

NoHist == [ctxAtCall |-> "nil", cancelledInFlight |-> FALSE, sent |-> FALSE,
           decoded |-> FALSE, checked |-> FALSE, op |-> "", args |-> <<>>,
           doCalls |-> 0, doErr |-> NoError, timeout |-> 0]

NoOutcome == Outcome(NilResponse, NoError)

\* no Code was rendered
NoCodeStr == [done |-> FALSE, code |-> 0, text |-> <<>>]

InitCalls(cs) ==
    /\ caller = [c \in cs |-> "idle"]
    /\ ctx = [c \in cs |-> "nil"]
    /\ path = [c \in cs |-> <<>>]
    /\ params = [c \in cs |-> Params(TRUE, NoParams)]
    /\ pc = [c \in cs |-> "none"]
    /\ worker = [c \in cs |-> FALSE]
    /\ req = [c \in cs |-> <<>>]
    /\ httpResp = [c \in cs |-> NoHTTPResp]
    /\ padResponse = [c \in cs |-> NoOutcome]
    /\ ch = [c \in cs |-> <<>>]
    /\ result = [c \in cs |-> NoOutcome]
    /\ hist = [c \in cs |-> NoHist]
    /\ codeStr = [c \in cs |-> NoCodeStr]
    /\ stdout = [c \in cs |-> << >>]

\* the clients of the process: http.DefaultClient, and the client that a call
\* of NewEtherpadLite of the older revisions makes for its configuration
ClientRefs == {"http.DefaultClient", "pad", "other"}

\* the client that the field Client of a configuration points to; who names
\* the call of NewEtherpadLite that made the configuration
ClientRef(who, cfg) == IF cfg.Client.shared THEN "http.DefaultClient" ELSE who

\* a second call of NewEtherpadLite, and the clients as the calls leave
\* them: http.DefaultClient without a timeout, "&http.Client{}" with the
\* Timeout of 20 seconds that the older revisions set (the current revision
\* makes no client, and nothing points to the entries of pad and other)
InitConfigs ==
    /\ other = NewEtherpadLite(impl, <<"secret">>)
    /\ clients = [r \in ClientRefs |->
                    IF r = "http.DefaultClient" THEN 0 ELSE DefaultClient("goroutine").Timeout]

Init ==
    /\ impl \in Impls
    /\ \E k \in ApiKeys : pad = NewEtherpadLite(impl, k)
    /\ InitCalls(CallIds)
    /\ InitConfigs

AllIdle == \A c \in Callers : caller[c] = "idle"

\* ------------------------------------------------------------ configuring
\* pad.BaseURL = u
SetBaseURL(u) ==
    /\ AllIdle
    /\ pad.BaseURL # u
    /\ pad' = [pad EXCEPT !.BaseURL = u]
    /\ UNCHANGED << configs, stdout, codeStr, impl, caller, ctx, path, params, pc, worker, req, httpResp,
                    padResponse, ch, result, hist >>

\* pad.RaiseEtherpadErrors = b (a field of the current revision only)
SetRaiseEtherpadErrors(b) ==
    /\ AllIdle
    /\ impl = "current"
    /\ pad.RaiseEtherpadErrors # b
    /\ pad' = [pad EXCEPT !.RaiseEtherpadErrors = b]
    /\ UNCHANGED << configs, stdout, codeStr, impl, caller, ctx, path, params, pc, worker, req, httpResp,
                    padResponse, ch, result, hist >>

\* pad.BaseParams["padID"] = "fixed"
SetBaseParam ==
    /\ AllIdle
    /\ "padID" \notin DOMAIN pad.BaseParams
    /\ pad' = [pad EXCEPT !.BaseParams =
                 [k \in {"apikey", "padID"} |->
                    IF k = "padID" THEN FixedPadID ELSE pad.BaseParams["apikey"]]]
    /\ UNCHANGED << configs, stdout, codeStr, impl, caller, ctx, path, params, pc, worker, req, httpResp,
                    padResponse, ch, result, hist >>

\* delete(pad.BaseParams, "padID")
DeleteBaseParam ==
    /\ AllIdle
    /\ "padID" \in DOMAIN pad.BaseParams
    /\ pad' = [pad EXCEPT !.BaseParams = [k \in {"apikey"} |-> pad.BaseParams["apikey"]]]
    /\ UNCHANGED << configs, stdout, codeStr, impl, caller, ctx, path, params, pc, worker, req, httpResp,
                    padResponse, ch, result, hist >>

\* ------------------------------------------------------------ the dispatcher
\* the arguments of Sprintf in another order: base/path/version
ComposeAddressSwapped(p) == pad.BaseURL \o <<"/">> \o p \o <<"/">> \o pad.APIVersion

\* fmt.Sprintf("%s/%s/%s", pad.BaseURL, pad.APIVersion, path)
\* ("%s/%d/%s" with the integer APIVersion of the first revision)
ComposeAddress(p) == pad.BaseURL \o <<"/">> \o pad.APIVersion \o <<"/">> \o p

\* the two range loops in the other order: params first, BaseParams second
BuildQueryParamsFirst(prm) ==
    ValuesEncode(AddAll(AddAll(EmptyValues, prm.m), pad.BaseParams))

\* parameters := url.Values{}; the two range loops; parameters.Encode()
BuildQuery(prm) ==
    ValuesEncode(AddAll(AddAll(EmptyValues, pad.BaseParams), prm.m))

\* the request built without a look at the error of url.Parse
BuildRequestUnchecked(p, prm) ==
    [err |-> NoError, address |-> ComposeAddress(p) \o <<"?">> \o BuildQuery(prm)]

\* url.Parse, the query, getURL.String() and http.NewRequest: the address of
\* the request, or the error returned before any request exists
BuildRequest(p, prm) ==
    LET getURL == UrlParse(ComposeAddress(p))
        withQ  == [getURL EXCEPT !.RawQuery = BuildQuery(prm)]
        reqURL == UrlParse(UrlString(withQ))
    IN  \* (in the first revision a failing NewRequest with a non-nil ctx would
        \* reach req.WithContext on a nil request; no address of the model
        \* parses once and fails to parse again)
        IF ~getURL.ok THEN [err |-> Err("parse"), address |-> <<>>]
        ELSE IF ~reqURL.ok THEN [err |-> Err("request"), address |-> <<>>]
        ELSE [err |-> NoError, address |-> UrlString(reqURL)]

\* the scheme of the request, which the transport looks at first
ReqScheme(address) == IF HasScheme(address) THEN address[1] ELSE ""

\* the request built without req.WithContext(ctx): no ctx ends it
ReqCtxIgnored(c) == FALSE

\* req = req.WithContext(ctx) under "if ctx != nil": the request ends when ctx
\* is done; without it no ctx ends the request
ReqCtxDone(c) == ctx[c] = "done"

\* the error returned with a nil Response, like every other error
StatusCheckNilResponse(resp) ==
    IF pad.RaiseEtherpadErrors /\ resp.Code # EverythingOk
    THEN Outcome(NilResponse, NewEtherpadError(resp.Code, resp.Message))
    ELSE Outcome(resp, NoError)

\* the check without the flag: every code that is not ok is raised
StatusCheckIgnoresFlag(resp) ==
    IF resp.Code # EverythingOk
    THEN Outcome(resp, NewEtherpadError(resp.Code, resp.Message))
    ELSE Outcome(resp, NoError)

\* "if pad.RaiseEtherpadErrors && padResponse.Code != EverythingOk" and the
\* two returns after it
StatusCheck(resp) ==
    IF pad.RaiseEtherpadErrors /\ resp.Code # EverythingOk
    THEN Outcome(resp, NewEtherpadError(resp.Code, resp.Message))
    ELSE Outcome(resp, NoError)

\* the decoding of the body: the streaming decoder of the current revision,
\* ioutil.ReadAll and json.Unmarshal of the two before it
DecodeBody(b) == IF impl = "current" THEN DecoderDecode(b) ELSE JsonUnmarshal(b)

\* "return &padResponse, jsonErr" in place of "return nil, jsonErr"
AfterDecodeKeepsResponse(dec) ==
    IF dec.err # NoError THEN Outcome(dec.response, dec.err)
    ELSE IF impl = "current" THEN StatusCheck(dec.response)
    ELSE Outcome(dec.response, NoError)

\* what the body of the dispatcher returns once the body was decoded
AfterDecode(dec) ==
    IF dec.err # NoError THEN Outcome(NilResponse, dec.err)
    ELSE IF impl = "current" THEN StatusCheck(dec.response)
    ELSE Outcome(dec.response, NoError)

\* one channel of the package that every call uses
SharedChan(c) == 1

\* "ch := make(chan *resType, 1)" in the body of sendRequest: every call makes
\* a channel of its own
ChanOf(c) == c

\* a channel without a buffer
ChanCapUnbuffered == Len(<< >>)

\* "ch := make(chan *resType, 1)": the capacity of the result channel
ChanCap == 1

\* The body returns out: to the caller when it runs in the caller, into the
\* channel ("ch <- &resType{...}") when it runs in the worker goroutine.
Finish(c, out) ==
    /\ pc' = [pc EXCEPT ![c] = "exited"]
    /\ IF worker[c]
       THEN /\ Len(ch[ChanOf(c)]) < ChanCap
            /\ ch' = [ch EXCEPT ![ChanOf(c)] = Append(ch[ChanOf(c)], out)]
            /\ UNCHANGED << caller, result >>
       ELSE /\ caller' = [caller EXCEPT ![c] = "returned"]
            /\ result' = [result EXCEPT ![c] = out]
            /\ UNCHANGED ch

\* the entry of sendRequest(ctx, path, params): with a non-nil ctx the
\* goroutine revision starts a worker ("go func()") and waits in the select;
\* h is what is remembered of the call, out what the method wrote before
Enter(c, cx, p, prm, h, out) ==
    /\ caller[c] = "idle"
    /\ ctx' = [ctx EXCEPT ![c] = cx]
    /\ path' = [path EXCEPT ![c] = p]
    /\ params' = [params EXCEPT ![c] = prm]
    /\ worker' = [worker EXCEPT ![c] = (impl = "goroutine" /\ cx # "nil")]
    /\ caller' = [caller EXCEPT ![c] =
                    IF impl = "goroutine" /\ cx # "nil" THEN "select" ELSE "running"]
    /\ pc' = [pc EXCEPT ![c] = "compose"]
    /\ hist' = [hist EXCEPT ![c] = h]
    /\ stdout' = [stdout EXCEPT ![c] = out]
    /\ UNCHANGED << configs, codeStr, impl, pad, req, httpResp, padResponse, ch, result >>

\* what CreatePad of the first revision writes before it calls sendRequest:
\* fmt.Println("Setting text!") or fmt.Println("Not setting :()"); the later
\* revisions write nothing
CreatePadOutput(text) ==
    IF impl # "first" THEN << >>
    ELSE IF IsOptionalParam(text) THEN << <<"Not setting :()">> >>
    ELSE << <<"Setting text!">> >>

\* what sendRequest writes: "fmt.Println(getURL)" of the first revision, the
\* address with its query string, once url.Parse has succeeded; the later
\* revisions write nothing
SendRequestOutput(p, prm) ==
    LET getURL == UrlParse(ComposeAddress(p))
    IN  IF impl = "first" /\ getURL.ok
        THEN << UrlString([getURL EXCEPT !.RawQuery = BuildQuery(prm)]) >>
        ELSE << >>

\* a call of sendRequest(ctx, path, params)
SendRequest(c, cx, p, prm) == Enter(c, cx, p, prm, [NoHist EXCEPT !.ctxAtCall = cx], << >>)

\* a call of an exported method: it builds the per-call map from its
\* arguments and calls sendRequest with its path
Method(c, cx, call) ==
    /\ call.op \in MethodsOf(impl)
    /\ LET r == Invoke(impl, call.op, call.args)
       IN  Enter(c, cx, r.path, r.params,
                 [NoHist EXCEPT !.ctxAtCall = cx, !.op = call.op, !.args = call.args],
                 IF call.op = "CreatePad" THEN CreatePadOutput(call.args[2]) ELSE << >>)

\* the per-call parameters added to pad.BaseParams itself, and the request
\* built from that map
ComposeIntoBaseParams(c) ==
    /\ pc[c] = "compose"
    /\ pad' = [pad EXCEPT !.BaseParams =
                 [k \in (DOMAIN pad.BaseParams) \cup (DOMAIN params[c].m) |->
                    IF k \in DOMAIN params[c].m THEN params[c].m[k] ELSE pad.BaseParams[k]]]
    /\ LET r == BuildRequest(path[c], params[c])
       IN  IF r.err # NoError
           THEN /\ Finish(c, Outcome(NilResponse, r.err))
                /\ UNCHANGED req
           ELSE /\ req' = [req EXCEPT ![c] = r.address]
                /\ pc' = [pc EXCEPT ![c] = "do"]
                /\ UNCHANGED << caller, result, ch >>
    /\ stdout' = [stdout EXCEPT ![c] = @ \o SendRequestOutput(path[c], params[c])]
    /\ UNCHANGED << configs, codeStr, impl, ctx, path, params, worker, httpResp,
                    padResponse, hist >>

\* from url.Parse to http.NewRequest
Compose(c) ==
    /\ pc[c] = "compose"
    /\ LET r == BuildRequest(path[c], params[c])
       IN  IF r.err # NoError
           THEN /\ Finish(c, Outcome(NilResponse, r.err))
                /\ UNCHANGED req
           ELSE /\ req' = [req EXCEPT ![c] = r.address]
                /\ pc' = [pc EXCEPT ![c] = "do"]
                /\ UNCHANGED << caller, result, ch >>
    /\ stdout' = [stdout EXCEPT ![c] = @ \o SendRequestOutput(path[c], params[c])]
    /\ UNCHANGED << configs, codeStr, impl, pad, ctx, path, params, worker, httpResp,
                    padResponse, hist >>

\* pad.Client.Do(req) up to the sending of the request: a scheme that is not
\* http or https and a ctx that is done end it before anything is sent
Do(c) ==
    /\ pc[c] = "do"
    /\ IF ReqScheme(req[c]) \notin {"http", "https"}
       THEN /\ Finish(c, Outcome(NilResponse, UnsupportedScheme))
            /\ hist' = [hist EXCEPT ![c].doCalls = @ + 1, ![c].doErr = UnsupportedScheme,
                                    ![c].timeout = clients[ClientRef("pad", pad)]]
       ELSE IF ReqCtxDone(c)
       THEN /\ Finish(c, Outcome(NilResponse, Err("canceled")))
            /\ hist' = [hist EXCEPT ![c].doCalls = @ + 1, ![c].doErr = Err("canceled"),
                                    ![c].timeout = clients[ClientRef("pad", pad)]]
       ELSE /\ pc' = [pc EXCEPT ![c] = "inflight"]
            /\ hist' = [hist EXCEPT ![c].sent = TRUE, ![c].doCalls = @ + 1,
                                    ![c].timeout = clients[ClientRef("pad", pad)]]
            /\ UNCHANGED << caller, result, ch >>
    /\ UNCHANGED << configs, stdout, codeStr, impl, pad, ctx, path, params, worker, req, httpResp, padResponse >>

\* Client.Do's error of a request that was sent, were it a transport failure
\* whatever ended the request
DoErrTransport(c, e) == e

\* doErr of "resp, doErr := pad.Client.Do(req)" for a request that was sent:
\* the error of the ctx of the request once that ctx is done, the failure of
\* the transport, e, otherwise
DoErr(c, e) == IF ReqCtxDone(c) THEN Err("canceled") ELSE e

\* Client.Do called again when it returned an error
DoErrorRetry(c, e) ==
    /\ pc[c] = "inflight"
    /\ pc' = [pc EXCEPT ![c] = "do"]
    /\ UNCHANGED << configs, stdout, codeStr, impl, pad, caller, ctx, path, params, worker, req, httpResp,
                    padResponse, ch, result, hist >>

\* the error of Client.Do returned inside another error
DoErrorWrapped(c, e) ==
    /\ pc[c] = "inflight"
    /\ hist' = [hist EXCEPT ![c].doErr = DoErr(c, e)]
    /\ Finish(c, Outcome(NilResponse, [DoErr(c, e) EXCEPT !.kind = "wrapped"]))
    /\ UNCHANGED << configs, stdout, codeStr, impl, pad, ctx, path, params, worker, req, httpResp, padResponse >>

\* pad.Client.Do(req) returns an error and no response: the transport failed
\* with e, or the ctx of the request is done; "return nil, doErr"
DoError(c, e) ==
    /\ pc[c] = "inflight"
    /\ hist' = [hist EXCEPT ![c].doErr = DoErr(c, e)]
    /\ Finish(c, Outcome(NilResponse, DoErr(c, e)))
    /\ UNCHANGED << configs, stdout, codeStr, impl, pad, ctx, path, params, worker, req, httpResp, padResponse >>

\* a body that nobody closes
BodyLeftOpen(r) == r

\* "defer resp.Body.Close()", run when the body of the dispatcher returns
BodyClose(r) == [r EXCEPT !.open = FALSE, !.closes = @ + 1]

\* pad.Client.Do(req) returns a response together with an error: the
\* redirect policy of the client ended the request ("stopped after 10
\* redirects"), and the client has closed the body of the response it hands
\* back; "if resp != nil { defer resp.Body.Close() }", "return nil, doErr"
DoErrorWithResponse(c) ==
    /\ pc[c] = "inflight"
    /\ ~ReqCtxDone(c)
    /\ httpResp' = [httpResp EXCEPT ![c] =
                      BodyClose([present |-> TRUE, body |-> BodyEmpty, open |-> FALSE,
                                 closes |-> 0])]
    /\ hist' = [hist EXCEPT ![c].doErr = RedirectErr]
    /\ Finish(c, Outcome(NilResponse, RedirectErr))
    /\ UNCHANGED << configs, stdout, codeStr, impl, pad, ctx, path, params, worker, req,
                    padResponse >>

\* pad.Client.Do(req) returns the response of the server
DoResponse(c, b) ==
    /\ pc[c] = "inflight"
    /\ ~ReqCtxDone(c)
    /\ httpResp' = [httpResp EXCEPT ![c] =
                      [present |-> TRUE, body |-> b, open |-> TRUE, closes |-> 0]]
    /\ pc' = [pc EXCEPT ![c] = "decode"]
    /\ UNCHANGED << configs, stdout, codeStr, impl, pad, caller, ctx, path, params, worker, req, padResponse,
                    ch, result, hist >>

\* the reading and decoding of the body, the status check, and the return;
\* a ctx that is done fails the reading of the body
Decode(c) ==
    /\ pc[c] = "decode"
    /\ IF ReqCtxDone(c)
       THEN /\ Finish(c, Outcome(NilResponse, Err("canceled")))
            /\ UNCHANGED << padResponse, hist >>
       ELSE LET dec == DecodeBody(httpResp[c].body)
            IN  /\ padResponse' = [padResponse EXCEPT ![c] = dec]
                /\ hist' = [hist EXCEPT ![c].decoded = TRUE,
                                        ![c].checked = (impl = "current" /\ dec.err = NoError)]
                /\ Finish(c, AfterDecode(dec))
    /\ httpResp' = [httpResp EXCEPT ![c] = BodyClose(@)]
    /\ UNCHANGED << configs, stdout, codeStr, impl, pad, ctx, path, params, worker, req >>

\* the select returning "ctx cancelled" whatever the state of ctx
SelectDoneUnguarded(c) ==
    /\ caller[c] = "select"
    /\ caller' = [caller EXCEPT ![c] = "returned"]
    /\ result' = [result EXCEPT ![c] = Outcome(NilResponse, Err("ctx cancelled"))]
    /\ UNCHANGED << configs, stdout, codeStr, impl, pad, ctx, path, params, pc, worker, req,
                    httpResp, padResponse, ch, hist >>

\* "case <-ctx.Done(): return nil, errors.New("ctx cancelled")"
SelectDone(c) ==
    /\ caller[c] = "select"
    /\ ctx[c] = "done"
    /\ caller' = [caller EXCEPT ![c] = "returned"]
    /\ result' = [result EXCEPT ![c] = Outcome(NilResponse, Err("ctx cancelled"))]
    /\ UNCHANGED << configs, stdout, codeStr, impl, pad, ctx, path, params, pc, worker, req, httpResp,
                    padResponse, ch, hist >>

\* "case res := <-ch: return res.response, res.err"
SelectResult(c) ==
    /\ caller[c] = "select"
    /\ ch[ChanOf(c)] # <<>>
    /\ caller' = [caller EXCEPT ![c] = "returned"]
    /\ result' = [result EXCEPT ![c] = Head(ch[ChanOf(c)])]
    /\ ch' = [ch EXCEPT ![ChanOf(c)] = Tail(ch[ChanOf(c)])]
    /\ UNCHANGED << configs, stdout, codeStr, impl, pad, ctx, path, params, pc, worker, req, httpResp,
                    padResponse, hist >>

\* the owner of ctx cancels it (or its deadline passes)
Cancel(c) ==
    /\ caller[c] # "idle"
    /\ ctx[c] = "live"
    /\ ctx' = [ctx EXCEPT ![c] = "done"]
    /\ hist' = [hist EXCEPT ![c].cancelledInFlight =
                  (hist[c].cancelledInFlight \/ pc[c] \in {"inflight", "decode"})]
    /\ UNCHANGED << configs, stdout, codeStr, impl, pad, caller, path, params, pc, worker, req, httpResp,
                    padResponse, ch, result >>

\* the caller has its result and the body of the call has ended: the next call
NextCall(c) ==
    /\ caller[c] = "returned"
    /\ pc[c] = "exited"
    /\ caller' = [caller EXCEPT ![c] = "idle"]
    /\ ctx' = [ctx EXCEPT ![c] = "nil"]
    /\ path' = [path EXCEPT ![c] = <<>>]
    /\ params' = [params EXCEPT ![c] = Params(TRUE, NoParams)]
    /\ pc' = [pc EXCEPT ![c] = "none"]
    /\ worker' = [worker EXCEPT ![c] = FALSE]
    /\ req' = [req EXCEPT ![c] = <<>>]
    /\ httpResp' = [httpResp EXCEPT ![c] = NoHTTPResp]
    /\ padResponse' = [padResponse EXCEPT ![c] = NoOutcome]
    /\ ch' = [ch EXCEPT ![ChanOf(c)] = <<>>]
    /\ result' = [result EXCEPT ![c] = NoOutcome]
    /\ hist' = [hist EXCEPT ![c] = NoHist]
    /\ codeStr' = [codeStr EXCEPT ![c] = NoCodeStr]
    /\ stdout' = [stdout EXCEPT ![c] = << >>]
    /\ UNCHANGED << configs, impl, pad >>

\* the caller renders the Code of the Response it got: code.String()
\* (ReturnCode and its String method are of the current revision)
String(c) ==
    /\ impl = "current"
    /\ caller[c] = "returned"
    /\ ~result[c].response.isNil
    /\ ~codeStr[c].done
    /\ codeStr' = [codeStr EXCEPT ![c] =
                     [done |-> TRUE, code |-> result[c].response.Code,
                      text |-> ReturnCodeString(result[c].response.Code)]]
    /\ UNCHANGED << configs, stdout, impl, pad, caller, ctx, path, params, pc, worker, req,
                    httpResp, padResponse, ch, result, hist >>

\* every step of the program and of its environment, the per-call parameter
\* maps drawn from args
NextOf(args) ==
    \/ \E u \in BaseURLs : SetBaseURL(u)
    \/ \E b \in BOOLEAN : SetRaiseEtherpadErrors(b)
    \/ SetBaseParam
    \/ DeleteBaseParam
    \/ \E c \in CallIds, cx \in Ctxs, p \in Paths, prm \in args : SendRequest(c, cx, p, prm)
    \/ \E c \in CallIds : Compose(c)
    \/ \E c \in CallIds : Do(c)
    \/ \E c \in CallIds, e \in TransportErrs : DoError(c, e)
    \/ \E c \in CallIds : DoErrorWithResponse(c)
    \/ \E c \in CallIds, b \in Bodies : DoResponse(c, b)
    \/ \E c \in CallIds : Decode(c)
    \/ \E c \in CallIds : SelectDone(c)
    \/ \E c \in CallIds : SelectResult(c)
    \/ \E c \in CallIds : Cancel(c)
    \/ \E c \in CallIds : NextCall(c)

Next == NextOf(ParamArgs)

Spec == Init /\ [][Next]_vars

\* The same program with two per-call maps, and with the scheduling a
\* cancelled call relies on: Client.Do returns once the ctx of its request is
\* done, and a goroutine that can decode, send its result or leave the select
\* does so.  Nothing makes the server answer, and the client of the current
\* revision has no timeout.
CancelParamArgs ==
    { Params(TRUE, NoParams), Params(FALSE, [k \in {"padID"} |-> StrVal(<<"foo">>)]) }

CancelNext == NextOf(CancelParamArgs)

CancelSpec ==
    /\ Init
    /\ [][CancelNext]_vars
    /\ \A c \in CallIds :
        /\ WF_vars((\E e \in TransportErrs : DoError(c, e)) /\ ReqCtxDone(c))
        /\ WF_vars(Decode(c))
        /\ WF_vars(SelectDone(c))
        /\ WF_vars(SelectResult(c))

\* The program as the callers of the exported methods see it: every call goes
\* through a method, which builds the per-call map from its arguments.
MethodCtxs == {"nil", "live"}

MethodBodies == {BodyOk, BodyWrongKey}

MethodNext ==
    \/ SetBaseParam
    \/ DeleteBaseParam
    \/ \E c \in CallIds, cx \in MethodCtxs, call \in MethodCalls : Method(c, cx, call)
    \/ \E c \in CallIds : Compose(c)
    \/ \E c \in CallIds : Do(c)
    \/ \E c \in CallIds, e \in TransportErrs : DoError(c, e)
    \/ \E c \in CallIds, b \in MethodBodies : DoResponse(c, b)
    \/ \E c \in CallIds : Decode(c)
    \/ \E c \in CallIds : SelectDone(c)
    \/ \E c \in CallIds : SelectResult(c)
    \/ \E c \in CallIds : Cancel(c)
    \/ \E c \in CallIds : NextCall(c)

MethodSpec == Init /\ [][MethodNext]_vars

\* The program with a server that answers with every code from below the
\* enumeration to MaxCode, and a caller that renders the code it gets.
StringCodes == (0 - 2) .. MaxCode

StringBodies ==
    { Body("object", Envelope(JNum(n), JStr("m"), JNull), FALSE) : n \in StringCodes }

StringNext ==
    \/ \E b \in BOOLEAN : SetRaiseEtherpadErrors(b)
    \/ \E c \in CallIds : SendRequest(c, "nil", <<"listAllPads">>, Params(TRUE, NoParams))
    \/ \E c \in CallIds : Compose(c)
    \/ \E c \in CallIds : Do(c)
    \/ \E c \in CallIds, e \in TransportErrs : DoError(c, e)
    \/ \E c \in CallIds, b \in StringBodies : DoResponse(c, b)
    \/ \E c \in CallIds : Decode(c)
    \/ \E c \in CallIds : String(c)
    \/ \E c \in CallIds : NextCall(c)

StringSpec == Init /\ [][StringNext]_vars

\* Two goroutines call methods of one EtherpadLite at the same time; nothing
\* changes the configuration.
ConcIds == {1, 2}

ConcCtxs == {"nil", "live"}

ConcBodies == {BodyOk, BodyWrongKey, BodyNotJSON}

ConcInit ==
    /\ impl \in Impls
    /\ pad = NewEtherpadLite(impl, <<"secret">>)
    /\ InitCalls(ConcIds)
    /\ InitConfigs

ConcNext ==
    \/ \E c \in ConcIds, cx \in ConcCtxs, p \in Paths, prm \in CancelParamArgs :
           SendRequest(c, cx, p, prm)
    \/ \E c \in ConcIds : Compose(c)
    \/ \E c \in ConcIds : Do(c)
    \/ \E c \in ConcIds, e \in TransportErrs : DoError(c, e)
    \/ \E c \in ConcIds, b \in ConcBodies : DoResponse(c, b)
    \/ \E c \in ConcIds : Decode(c)
    \/ \E c \in ConcIds : SelectDone(c)
    \/ \E c \in ConcIds : SelectResult(c)
    \/ \E c \in ConcIds : Cancel(c)
    \/ \E c \in ConcIds : NextCall(c)

ConcSpec == ConcInit /\ [][ConcNext]_vars

\* ------------------------------------------------------------ observing a call
Returned(c) == caller[c] = "returned"

RequestBuilt(c) == req[c] # <<>>

\* the address of a request without its query string
AddressPart(address) == Before(Before(address, "#"), "?")

\* the <<key, value>> pairs the server reads from the request
QueryPairs(address) == ParseQuery(Before(After(address, "?"), "#"))

\* the values the request carries for one key, in order
RECURSIVE ValuesIn(_, _)
ValuesIn(pairs, k) ==
    IF pairs = <<>> THEN <<>>
    ELSE (IF Head(pairs)[1] = <<k>> THEN << Head(pairs)[2] >> ELSE <<>>)
         \o ValuesIn(Tail(pairs), k)

IsCancellation(e) == e.kind \in {"canceled", "ctx cancelled"}

\* the state of one call
CallState(c) ==
    << caller[c], ctx[c], path[c], params[c], pc[c], worker[c], req[c], httpResp[c],
       padResponse[c], ch[c], result[c], hist[c], codeStr[c] >>

\* what the code makes of the response a call received
OwnOutcome(c) == AfterDecode(DecodeBody(httpResp[c].body))

\* the optional parameters of a method: << position of the argument, key >>
OptionalOf(op) ==
    CASE op \in {"CreatePad"}                      -> { <<2, "text">> }
      [] op = "CreateGroupPad"                     -> { <<3, "text">> }
      [] op = "CreateAuthor"                       -> { <<1, "name">> }
      [] op = "CreateAuthorIfNotExistsFor"         -> { <<2, "name">> }
      [] op \in {"GetText", "GetHTML", "GetRevisionChangeset", "SaveRevision"}
                                                   -> { <<2, "rev">> }
      [] op = "GetChatHistory"                     -> { <<2, "start">>, <<3, "end">> }
      [] OTHER                                     -> {}

\* Two configurations of two calls of NewEtherpadLite: the program configures
\* the second one, other, and calls sendRequest on the first, pad.
Timeouts == {0, 5, 20}

\* "other.Timeout(d)" of the older revisions (pad.Client.Timeout = timeout),
\* "other.Client.Timeout = d" in the current one, which has no such method:
\* the Timeout field of the client that other.Client points to
Timeout(d) ==
    /\ clients[ClientRef("other", other)] # d
    /\ clients' = [clients EXCEPT ![ClientRef("other", other)] = d]
    /\ UNCHANGED << other, stdout, codeStr, impl, pad, caller, ctx, path, params, pc, worker,
                    req, httpResp, padResponse, ch, result, hist >>

\* other.BaseParams["padID"] = "fixed", delete(other.BaseParams, "padID") and
\* other.RaiseEtherpadErrors = b
ConfigureOther ==
    /\ \/ /\ "padID" \notin DOMAIN other.BaseParams
          /\ other' = [other EXCEPT !.BaseParams =
                         [k \in {"apikey", "padID"} |->
                            IF k = "padID" THEN FixedPadID ELSE other.BaseParams["apikey"]]]
       \/ /\ "padID" \in DOMAIN other.BaseParams
          /\ other' = [other EXCEPT !.BaseParams =
                         [k \in {"apikey"} |-> other.BaseParams["apikey"]]]
       \/ /\ impl = "current"
          /\ other' = [other EXCEPT !.RaiseEtherpadErrors = ~other.RaiseEtherpadErrors]
    /\ UNCHANGED << clients, stdout, codeStr, impl, pad, caller, ctx, path, params, pc,
                    worker, req, httpResp, padResponse, ch, result, hist >>

TwoNext ==
    \/ \E d \in Timeouts : Timeout(d)
    \/ ConfigureOther
    \/ \E c \in CallIds, cx \in Ctxs, p \in Paths, prm \in CancelParamArgs :
           SendRequest(c, cx, p, prm)
    \/ \E c \in CallIds : Compose(c)
    \/ \E c \in CallIds : Do(c)
    \/ \E c \in CallIds, e \in TransportErrs : DoError(c, e)
    \/ \E c \in CallIds, b \in MethodBodies : DoResponse(c, b)
    \/ \E c \in CallIds : Decode(c)
    \/ \E c \in CallIds : SelectDone(c)
    \/ \E c \in CallIds : SelectResult(c)
    \/ \E c \in CallIds : Cancel(c)
    \/ \E c \in CallIds : NextCall(c)

TwoSpec == Init /\ [][TwoNext]_vars

\* ------------------------------------------------------------ properties

\* C1: the address of every request built, without its query string, is
\* BaseURL "/" APIVersion "/" path, whatever the per-call parameter map
\* (nil, empty, or of any size and content).
C1_AddressIsBaseVersionPath ==
    \A c \in Callers :
        RequestBuilt(c) =>
            AddressPart(req[c]) = pad.BaseURL \o <<"/">> \o pad.APIVersion \o <<"/">> \o path[c]

\* a request in flight whose per-call map has at least two entries
C1_Witness ==
    \E c \in Callers :
        /\ pc[c] = "inflight"
        /\ ~params[c].isNil
        /\ Cardinality(DOMAIN params[c].m) >= 2
        /\ \E k \in DOMAIN params[c].m : Contains(params[c].m[k].str, "?")

\* C2: every key of BaseParams appears in the query string of every request
\* built, with its configured value, whatever the per-call parameter map.
C2_FixedParamsInQuery ==
    \A c \in Callers :
        RequestBuilt(c) =>
            \A k \in DOMAIN pad.BaseParams :
                \E i \in 1..Len(QueryPairs(req[c])) :
                    QueryPairs(req[c])[i] = << <<k>>, SprintV(pad.BaseParams[k]) >>

\* a request whose per-call map holds both fixed keys with other values
C2_Witness ==
    \E c \in Callers :
        /\ pc[c] = "inflight"
        /\ DOMAIN pad.BaseParams = {"apikey", "padID"}
        /\ ~params[c].isNil
        /\ DOMAIN params[c].m = {"apikey", "padID"}
        /\ params[c].m["apikey"] # pad.BaseParams["apikey"]

\* C3 as stated: the only value a request carries for "apikey" is the
\* configured API key, also when the per-call map contains the key "apikey".
C3_OnlyConfiguredKey ==
    \A c \in Callers :
        RequestBuilt(c) =>
            ValuesIn(QueryPairs(req[c]), "apikey") = << SprintV(pad.BaseParams["apikey"]) >>

\* C3 amended: the first value every request carries for "apikey" is the
\* configured API key; a per-call map with the key "apikey" adds its value as
\* the second value and replaces nothing, and without it the configured key
\* is the only value.
C3_ConfiguredKeyFirst ==
    \A c \in Callers :
        RequestBuilt(c) =>
            ValuesIn(QueryPairs(req[c]), "apikey") =
                << SprintV(pad.BaseParams["apikey"]) >>
                \o (IF "apikey" \in DOMAIN params[c].m
                    THEN << SprintV(params[c].m["apikey"]) >> ELSE <<>>)

\* a request whose per-call map has its own "apikey"
C3_Witness ==
    \E c \in Callers :
        /\ RequestBuilt(c)
        /\ "apikey" \in DOMAIN params[c].m
        /\ SprintV(params[c].m["apikey"]) # SprintV(pad.BaseParams["apikey"])
        /\ Len(ValuesIn(QueryPairs(req[c]), "apikey")) = 2

\* C4 as stated: a call returns a Response and no error, or an error and a
\* nil Response, never both.
C4_ResponseXorError ==
    \A c \in Callers :
        Returned(c) =>
            \/ ~result[c].response.isNil /\ result[c].err = NoError
            \/ result[c].response.isNil /\ result[c].err # NoError

\* C4 amended: a call returns a Response and no error, or an error and a nil
\* Response, or - only in the current revision with RaiseEtherpadErrors set
\* and a decoded code that is not ok - the decoded Response together with
\* an EtherpadError; it never returns neither.
C4_ThreeOutcomes ==
    \A c \in Callers :
        Returned(c) =>
            \/ ~result[c].response.isNil /\ result[c].err = NoError
            \/ result[c].response.isNil /\ result[c].err # NoError
            \/ /\ ~result[c].response.isNil
               /\ result[c].err.kind = "etherpad"
               /\ impl = "current"
               /\ pad.RaiseEtherpadErrors
               /\ result[c].response.Code # EverythingOk

\* a call that returned a Response together with an EtherpadError
C4_Witness ==
    \E c \in Callers :
        /\ Returned(c)
        /\ ~result[c].response.isNil
        /\ result[c].err.kind = "etherpad"

\* C5: with RaiseEtherpadErrors set, a decoded code that is not EverythingOk
\* makes the call return an EtherpadError with the Code and the Message of
\* the decoded envelope, and the decoded envelope with it.
C5_RaisedErrorCarriesEnvelope ==
    \A c \in Callers :
        ( /\ Returned(c)
          /\ impl = "current"
          /\ pad.RaiseEtherpadErrors
          /\ hist[c].decoded
          /\ padResponse[c].err = NoError
          /\ padResponse[c].response.Code # EverythingOk )
        => /\ result[c].err = NewEtherpadError(padResponse[c].response.Code,
                                               padResponse[c].response.Message)
           /\ result[c].response = padResponse[c].response
           /\ EnvelopeShaped(httpResp[c].body) =>
                 /\ result[c].err.code = httpResp[c].body.fields["code"].n
                 /\ result[c].err.message = httpResp[c].body.fields["message"].s

\* the body with code 4 was decoded with the flag set, and the call returned
C5_Witness ==
    \E c \in Callers :
        /\ Returned(c)
        /\ pad.RaiseEtherpadErrors
        /\ httpResp[c].body = BodyWrongKey
        /\ hist[c].decoded
        /\ result[c].err.code = WrongAPIKey

\* C6: with RaiseEtherpadErrors false a decoded envelope is returned with a
\* nil error for every code (the goroutine revision may return "ctx
\* cancelled" in its place); an EtherpadError is returned only with the flag
\* set and a code that is not ok.
C6_NoErrorWithoutFlag ==
    \A c \in Callers :
        Returned(c) =>
            /\ ( /\ ~pad.RaiseEtherpadErrors
                 /\ hist[c].decoded
                 /\ padResponse[c].err = NoError )
               => \/ result[c] = Outcome(padResponse[c].response, NoError)
                  \/ /\ worker[c]
                     /\ ctx[c] = "done"
                     /\ result[c] = Outcome(NilResponse, Err("ctx cancelled"))
            /\ result[c].err.kind = "etherpad"
               => /\ impl = "current"
                  /\ pad.RaiseEtherpadErrors
                  /\ result[c].err.code # EverythingOk

\* the flag is false and an envelope with a code outside the enumeration was
\* returned with a nil error
C6_Witness ==
    \E c \in Callers :
        /\ Returned(c)
        /\ impl = "current"
        /\ ~pad.RaiseEtherpadErrors
        /\ result[c].err = NoError
        /\ result[c].response.Code = 7

\* C7: a body that is not valid JSON makes the call return a decode failure
\* and a nil Response, with either value of the flag, and the status check is
\* not reached (stated for the calls whose ctx is not done).
C7_InvalidJSONIsDecodeFailure ==
    \A c \in Callers :
        ( /\ Returned(c)
          /\ ctx[c] # "done"
          /\ hist[c].decoded
          /\ ~ValidJSON(httpResp[c].body) )
        => /\ result[c].response.isNil
           /\ result[c].err.kind = "json"
           /\ ~hist[c].checked

\* C8: a body that is valid JSON but has not the shape of the envelope makes
\* the call return an error and a nil Response (stated for the calls whose
\* ctx is not done).
C8_MisshapenIsDecodeFailure ==
    \A c \in Callers :
        ( /\ Returned(c)
          /\ ctx[c] # "done"
          /\ hist[c].decoded
          /\ ValidJSON(httpResp[c].body)
          /\ ~EnvelopeShaped(httpResp[c].body) )
        => /\ result[c].response.isNil
           /\ result[c].err # NoError

C10_Safe ==
    \A c \in Callers :
        (Returned(c) /\ hist[c].cancelledInFlight) =>
            /\ result[c].response.isNil
            /\ result[c].err # NoError
            /\ ~hist[c].decoded

C12_OptionalParamOmitsKey ==
    \A c \in Callers :
        RequestBuilt(c) =>
            \A o \in OptionalOf(hist[c].op) :
                ValuesIn(QueryPairs(req[c]), o[2]) =
                    IF hist[c].args[o[1]] = OptionalParam
                    THEN <<>>
                    ELSE << SprintV(hist[c].args[o[1]]) >>

\* a GetChatHistory request with start passed as the int 0 and end not supplied
C12_Witness ==
    \E c \in Callers :
        /\ pc[c] = "inflight"
        /\ hist[c].op = "GetChatHistory"
        /\ hist[c].args[2] = IntVal(0)
        /\ hist[c].args[3] = OptionalParam
        /\ ValuesIn(QueryPairs(req[c]), "start") = << <<"0">> >>
        /\ ValuesIn(QueryPairs(req[c]), "end") = <<>>

\* C13: every CopyPad and MovePad request carries exactly one value for the
\* key "force": "false" when force was passed as OptionalParam, and otherwise
\* the text fmt renders the passed value as.
C13_ForceDefaultsToFalse ==
    \A c \in Callers :
        (RequestBuilt(c) /\ hist[c].op \in {"CopyPad", "MovePad"}) =>
            ValuesIn(QueryPairs(req[c]), "force") =
                IF hist[c].args[3] = OptionalParam
                THEN << <<"false">> >>
                ELSE << SprintV(hist[c].args[3]) >>

\* a MovePad request whose force was not supplied
C13_Witness ==
    \E c \in Callers :
        /\ pc[c] = "inflight"
        /\ hist[c].op = "MovePad"
        /\ hist[c].args[3] = OptionalParam
        /\ ValuesIn(QueryPairs(req[c]), "force") = << <<"false">> >>

\* the request and the result of every call belong to that call
C14_OwnRequestOwnResult ==
    \A c \in Callers :
        /\ RequestBuilt(c) => req[c] = BuildRequest(path[c], params[c]).address
        /\ httpResp[c].present => hist[c].sent
        /\ Returned(c) =>
              IF ~result[c].response.isNil \/ result[c].err.kind \in {"json", "etherpad"}
              THEN hist[c].decoded /\ result[c] = OwnOutcome(c)
              ELSE result[c].err.kind \in {"parse", "request", "transport"}
                   \/ (ctx[c] = "done" /\ IsCancellation(result[c].err))

\* C14: with two goroutines calling at the same time on a configuration that
\* nothing modifies, under every interleaving the request of a call is built
\* from the configuration and the path and parameters of that call, its
\* result is what the code makes of the response to its own request (or its
\* own cancellation), and no step of one call changes anything of the other.
C14_ConcurrentCallsSafe ==
    /\ []C14_OwnRequestOwnResult
    /\ [][ /\ pad' = pad
           /\ \A c \in ConcIds, d \in ConcIds :
                 (c # d /\ CallState(c)' # CallState(c)) => CallState(d)' = CallState(d) ]_vars

\* both calls returned, their requests and their results differ
C14_Witness ==
    /\ Returned(1) /\ Returned(2)
    /\ req[1] # req[2]
    /\ RequestBuilt(1) /\ RequestBuilt(2)
    /\ ~result[1].response.isNil
    /\ result[2].err.kind = "json"
    /\ worker[1] /\ worker[2]

\* C15: in every call Client.Do is called at most once, whatever the call
\* ends with (a failed transport, a failed decoding, a cancellation, a code
\* that is not ok), and an envelope or a decoding or status error is returned
\* only for the response received and decoded in this very call.
C15_OneNetworkCallNoReuse ==
    \A c \in Callers :
        /\ hist[c].doCalls <= 1
        /\ hist[c].sent => hist[c].doCalls = 1
        /\ (Returned(c) /\ (~result[c].response.isNil
                             \/ result[c].err.kind \in {"json", "etherpad"}))
           => /\ hist[c].sent
              /\ httpResp[c].present
              /\ hist[c].decoded
              /\ result[c] = OwnOutcome(c)

\* a call whose transport failed returned that failure after one Client.Do
C15_Witness ==
    \E c \in Callers :
        /\ Returned(c)
        /\ pc[c] = "exited"
        /\ result[c].err.kind = "transport"
        /\ hist[c].sent
        /\ hist[c].doCalls = 1

\* C16: when the response of a call was received and its body is a
\* well-formed envelope, and the flag is false or the code of the body is ok,
\* the call returns a nil error and an envelope whose Code, Message and Data
\* are the code, the message and the data of the body (a null data is the
\* empty map); only the select of the goroutine revision may return "ctx
\* cancelled" in its place when the ctx is done.
C16_EnvelopeReturnedAsDecoded ==
    \A c \in Callers :
        ( /\ Returned(c)
          /\ hist[c].decoded
          /\ EnvelopeShaped(httpResp[c].body)
          /\ (~pad.RaiseEtherpadErrors \/ httpResp[c].body.fields["code"].n = EverythingOk) )
        => \/ /\ result[c].err = NoError
              /\ ~result[c].response.isNil
              /\ result[c].response.Code = httpResp[c].body.fields["code"].n
              /\ result[c].response.Message = httpResp[c].body.fields["message"].s
              /\ result[c].response.Data = httpResp[c].body.fields["data"].d
           \/ /\ worker[c]
              /\ ctx[c] = "done"
              /\ result[c] = Outcome(NilResponse, Err("ctx cancelled"))

\* the body {code: 0, message: "ok", data: {padID: foo}} was returned as
\* decoded, with the flag set
C16_Witness ==
    \E c \in Callers :
        /\ Returned(c)
        /\ pad.RaiseEtherpadErrors
        /\ httpResp[c].body = BodyOk
        /\ result[c].err = NoError
        /\ result[c].response.Code = 0
        /\ result[c].response.Message = "ok"
        /\ result[c].response.Data = PadData

\* the renderings of the five codes of the enumeration, code 0 first
C17_Renderings ==
    << "0 everything ok", "1 wrong parameters", "2 internal error", "3 no such function",
       "4 no or wrong API Key" >>

\* C17: String renders every code: the codes 0 to 4 as five fixed texts that
\* differ pairwise, every other integer n (negative or of several digits) as
\* the decimal text of n followed by " unknown return code"; and a response
\* with a code outside 0..4 is decoded and returned as every code that is not
\* ok is: the envelope with a nil error without the flag, the envelope with
\* an EtherpadError of that code with it.
C17_StringTotal ==
    /\ \A m \in 0..4, n \in 0..4 : m # n => C17_Renderings[m + 1] # C17_Renderings[n + 1]
    /\ \A c \in Callers :
        /\ codeStr[c].done =>
              IF codeStr[c].code \in 0..4
              THEN codeStr[c].text = << C17_Renderings[codeStr[c].code + 1] >>
              ELSE codeStr[c].text = FormatInt(codeStr[c].code) \o << " unknown return code" >>
        /\ ( /\ Returned(c)
             /\ impl = "current"
             /\ hist[c].decoded
             /\ httpResp[c].body.fields["code"].n \notin 0..4 )
           => /\ ~result[c].response.isNil
              /\ result[c].response.Code = httpResp[c].body.fields["code"].n
              /\ result[c].err =
                    IF pad.RaiseEtherpadErrors
                    THEN NewEtherpadError(httpResp[c].body.fields["code"].n,
                                          httpResp[c].body.fields["message"].s)
                    ELSE NoError

\* the code 12 came back with an EtherpadError and was rendered
C17_Witness ==
    \E c \in Callers :
        /\ codeStr[c].done
        /\ codeStr[c].code = 12
        /\ codeStr[c].text = << "1", "2", " unknown return code" >>
        /\ result[c].err.kind = "etherpad"

\* C18: NewEtherpadLite(apiKey) of the revision that is built returns, for
\* every API key, APIVersion "1.2.13", BaseURL "http://localhost:9001/api",
\* BaseParams with the one entry "apikey" |-> apiKey, a Client that is not
\* nil, and RaiseEtherpadErrors false.
C18_Defaults ==
    \A k \in ApiKeys :
        /\ NewEtherpadLite(impl, k).APIVersion = << "1.2.13" >>
        /\ NewEtherpadLite(impl, k).BaseURL =
              << "http", ":", "/", "/", "localhost", ":", "9001", "/", "api" >>
        /\ DOMAIN NewEtherpadLite(impl, k).BaseParams = {"apikey"}
        /\ NewEtherpadLite(impl, k).BaseParams["apikey"] = StrVal(k)
        /\ ~NewEtherpadLite(impl, k).Client.isNil
        /\ ~NewEtherpadLite(impl, k).RaiseEtherpadErrors

\* C19: in a call whose base address, version and path do not combine into
\* an address that url.Parse accepts, Client.Do is never called, nothing is
\* sent and no response is received, and the call returns a nil Response and
\* an error; and an address that parses but has no http or https scheme is
\* refused before anything is sent, with a nil Response and an error.
C19_MalformedAddressNoIO ==
    \A c \in Callers :
        /\ (caller[c] # "idle" /\ ~UrlParse(ComposeAddress(path[c])).ok)
           => /\ hist[c].doCalls = 0
              /\ ~hist[c].sent
              /\ ~httpResp[c].present
              /\ ~RequestBuilt(c)
              /\ Returned(c) => (result[c].response.isNil /\ result[c].err # NoError)
              /\ (Returned(c) /\ ~worker[c]) => result[c].err.kind = "parse"
        /\ (RequestBuilt(c) /\ ReqScheme(req[c]) \notin {"http", "https"})
           => /\ ~hist[c].sent
              /\ ~httpResp[c].present
              /\ Returned(c) => (result[c].response.isNil /\ result[c].err # NoError)

\* a call on a base address with a port that is no number returned the error
\* of url.Parse
C19_Witness ==
    \E c \in Callers :
        /\ Returned(c)
        /\ pc[c] = "exited"
        /\ Contains(pad.BaseURL, "port")
        /\ ~UrlParse(ComposeAddress(path[c])).ok
        /\ result[c].err.kind = "parse"
        /\ hist[c].doCalls = 0

\* C20: no step of a call - from its entry to its return and to the end of
\* its worker, on every path - changes the configuration (BaseURL,
\* APIVersion, BaseParams, Client, RaiseEtherpadErrors), and between the
\* entry of a call and its end the per-call parameter map is what the caller
\* passed.
C20_CallLeavesConfiguration ==
    [][ \A c \in Callers :
          /\ (caller[c] # "idle" \/ caller'[c] # "idle") => pad' = pad
          /\ (caller[c] # "idle" /\ caller'[c] # "idle") => params'[c] = params[c] ]_vars

\* a call returned a failure; its per-call map has a key of BaseParams with
\* another value, and both maps are as they were
C20_Witness ==
    \E c \in Callers :
        /\ Returned(c)
        /\ result[c].err.kind = "json"
        /\ DOMAIN pad.BaseParams = {"apikey", "padID"}
        /\ pad.BaseParams["padID"] = FixedPadID
        /\ ~params[c].isNil
        /\ DOMAIN params[c].m = {"padID", "text"}
        /\ params[c].m["padID"] # FixedPadID

\* C21: when Client.Do failed with an error of the transport, the call
\* returns a nil Response and that very error, the same value with the same
\* text, also when it passes through the channel of the goroutine revision;
\* only a call whose ctx is done may return "ctx cancelled" in its place.
C21_TransportErrorVerbatim ==
    \A c \in Callers :
        (Returned(c) /\ hist[c].doErr.kind = "transport") =>
            \/ result[c] = Outcome(NilResponse, hist[c].doErr)
            \/ /\ worker[c]
               /\ ctx[c] = "done"
               /\ result[c] = Outcome(NilResponse, Err("ctx cancelled"))

\* the error "no such host" of the transport came back through the channel
\* of a worker
C21_Witness ==
    \E c \in Callers :
        /\ Returned(c)
        /\ worker[c]
        /\ hist[c].sent
        /\ hist[c].doErr = TransportErr("no such host")
        /\ result[c] = Outcome(NilResponse, TransportErr("no such host"))

\* C22: every method forwards each of its arguments that is not
\* OptionalParam: the query string of the request it builds carries the text
\* of the argument under some key, and ListPadsOfAuthor carries the text of
\* its argument under the key "authorID". No argument is dropped.
C22_EveryArgumentForwarded ==
    \A c \in Callers :
        (RequestBuilt(c) /\ hist[c].op # "") =>
            /\ \A i \in DOMAIN hist[c].args :
                   ~IsOptionalParam(hist[c].args[i]) =>
                       \E j \in 1..Len(QueryPairs(req[c])) :
                           QueryPairs(req[c])[j][2] = SprintV(hist[c].args[i])
            /\ hist[c].op = "ListPadsOfAuthor" =>
                   ValuesIn(QueryPairs(req[c]), "authorID") = << SprintV(hist[c].args[1]) >>

\* the methods whose first argument is a pad identifier
TakesPadID ==
    { op \in ForwardingOps : Forwarding(op).keys # << >> /\ Forwarding(op).keys[1] = "padID" }
    \cup {"GetText", "GetHTML", "GetRevisionChangeset", "GetChatHistory", "CreatePad",
          "SaveRevision", "RestoreRevision"}

\* C27: every method that takes a pad identifier sends it under the key
\* "padID": the query string of its request carries the text of the
\* identifier under "padID", and no key "padId".
C27_PadIdentifierUnderPadID ==
    \A c \in Callers :
        (RequestBuilt(c) /\ hist[c].op \in TakesPadID) =>
            /\ \E j \in 1..Len(QueryPairs(req[c])) :
                  QueryPairs(req[c])[j] = << <<"padID">>, SprintV(hist[c].args[1]) >>
            /\ ValuesIn(QueryPairs(req[c]), "padId") = << >>

\* C23: a call writes nothing to standard output or a log: neither the
\* dispatcher nor a method writes the address of the request (which carries
\* the API key), a per-call parameter, or any other line.
C23_NothingWritten ==
    \A c \in Callers : stdout[c] = << >>

\* C24: when a per-call parameter has the key of a fixed parameter, the query
\* string of the request carries two values for that key, the fixed value
\* first and the per-call value second; neither replaces the other.
C24_CollisionKeepsBoth ==
    \A c \in Callers :
        (RequestBuilt(c) /\ ~params[c].isNil) =>
            \A k \in (DOMAIN pad.BaseParams) \cap (DOMAIN params[c].m) :
                ValuesIn(QueryPairs(req[c]), k) =
                    << SprintV(pad.BaseParams[k]), SprintV(params[c].m[k]) >>

\* a request in flight whose per-call map has the key "padID" of the fixed
\* parameters with another value, and whose query string carries both
C24_Witness ==
    \E c \in Callers :
        /\ pc[c] = "inflight"
        /\ ~params[c].isNil
        /\ "padID" \in (DOMAIN pad.BaseParams) \cap (DOMAIN params[c].m)
        /\ params[c].m["padID"] # pad.BaseParams["padID"]
        /\ Len(ValuesIn(QueryPairs(req[c]), "padID")) = 2

\* C25: in the goroutine revision the worker of a call with a non-nil ctx
\* always ends once its network call has returned: its one send on the
\* result channel finds room in the channel, so it never blocks, also when
\* the caller has already returned because ctx was cancelled; a worker that
\* has its response ends.
C25_WorkerTerminates ==
    /\ [](\A c \in CallIds :
             (worker[c] /\ pc[c] \notin {"none", "exited"}) =>
                 Len(ch[ChanOf(c)]) < ChanCap)
    /\ \A c \in CallIds : (worker[c] /\ pc[c] = "decode") ~> (pc[c] = "exited")

\* the caller returned "ctx cancelled" while the worker had its response to
\* read; the worker then sent its result into the channel and ended
C25_Witness ==
    \E c \in Callers :
        /\ worker[c]
        /\ pc[c] = "exited"
        /\ httpResp[c].present
        /\ Returned(c)
        /\ result[c] = Outcome(NilResponse, Err("ctx cancelled"))
        /\ Len(ch[ChanOf(c)]) = 1

\* C26: in the goroutine revision a call with a non-nil ctx leaves its select
\* with (nil, "ctx cancelled"), and then ctx is done, or with the pair its own
\* worker put into the channel of the call; "ctx cancelled" never comes with
\* a Response; what the caller got stays what it got, whatever the worker
\* sends after the return; a call with a nil ctx has no worker and returns
\* when its body has ended.
C26_CancelledOrWorkersPair ==
    /\ [][ \A c \in CallIds :
             /\ (caller[c] = "select" /\ caller'[c] = "returned") =>
                   \/ /\ result'[c] = Outcome(NilResponse, Err("ctx cancelled"))
                      /\ ctx[c] = "done"
                   \/ /\ ch[ChanOf(c)] # << >>
                      /\ result'[c] = Head(ch[ChanOf(c)])
             /\ (caller[c] = "returned" /\ caller'[c] = "returned") =>
                   result'[c] = result[c] ]_vars
    /\ [](\A c \in CallIds :
             /\ worker[c] <=> (impl = "goroutine" /\ caller[c] # "idle"
                               /\ hist[c].ctxAtCall # "nil")
             /\ caller[c] = "select" => worker[c]
             /\ (Returned(c) /\ ~worker[c]) => pc[c] = "exited"
             /\ (Returned(c) /\ result[c].err = Err("ctx cancelled")) =>
                   (worker[c] /\ result[c].response.isNil /\ ctx[c] = "done"))

\* the caller left with "ctx cancelled" while its worker waited for the
\* network; the channel is empty
C26_Witness ==
    \E c \in Callers :
        /\ impl = "goroutine"
        /\ Returned(c)
        /\ result[c] = Outcome(NilResponse, Err("ctx cancelled"))
        /\ pc[c] = "inflight"
        /\ ch[ChanOf(c)] = << >>

\* C28: two configurations of two calls of NewEtherpadLite share nothing
\* that changes: whatever is configured on one of them (the timeout of its
\* client, entries of its BaseParams, its flag), the other is as
\* NewEtherpadLite made it, its requests are built from its own fields, and
\* its network calls run under the timeout that NewEtherpadLite set.
C28_OtherConfigurationApart ==
    /\ \E k \in ApiKeys : pad = NewEtherpadLite(impl, k)
    /\ clients[ClientRef("pad", pad)] = DefaultClient(impl).Timeout
    /\ \A c \in Callers :
          /\ RequestBuilt(c) => req[c] = BuildRequest(path[c], params[c]).address
          /\ hist[c].doCalls > 0 => hist[c].timeout = DefaultClient(impl).Timeout

\* C29: on every path on which Client.Do returned a response (a decoded
\* envelope, a failed decoding, a code that is not ok, an error of the client
\* that comes with a response), the dispatcher has called Close on the body
\* exactly once when its body has returned, and the body is not open then;
\* it calls Close at no other time; and the call returns after its body
\* has, except for the "ctx cancelled" of the goroutine revision.
C29_BodyClosedOnce ==
    \A c \in Callers :
        /\ (pc[c] = "exited" /\ httpResp[c].present) =>
              (httpResp[c].closes = 1 /\ ~httpResp[c].open)
        /\ pc[c] # "exited" => httpResp[c].closes = 0
        /\ ~httpResp[c].present => (httpResp[c].closes = 0 /\ ~httpResp[c].open)
        /\ (Returned(c) /\ result[c].err # Err("ctx cancelled")) => pc[c] = "exited"

\* a call returned the error of a client that gave up on the redirects of
\* the server, and the body of the response that came with it was closed
C29_Witness ==
    \E c \in Callers :
        /\ Returned(c)
        /\ httpResp[c].present
        /\ result[c] = Outcome(NilResponse, RedirectErr)
        /\ httpResp[c].closes = 1

====
